---- MODULE Spec2Model ----
(***************************************************************************)
(* Model of the assembler's section and relocation manager                 *)
(* (src/src/asm/sections.rs): the section store, the active-section stack, *)
(* attribute normalisation (NormalizedSectAttrs::try_new), redefinition    *)
(* merging, emission (SectionHandleMut::extend) and the program-counter    *)
(* query (SectionHandle::try_get_pc); and of the fixer's argument parsers  *)
(* (src/src/fix/args.rs): FixSpec::from_str and MBC::from_str.             *)
(*                                                                         *)
(* Option<T> is modelled as a sequence: None is <<>>, Some(x) is <<x>>.    *)
(* Source locations (Location, DiagInfo) are opaque pass-through values    *)
(* and are left out of the records.  A &str is modelled as the sequence of *)
(* its characters, each a one-character string.                            *)
(***************************************************************************)
EXTENDS Integers, Sequences, FiniteSets, TLC

None == <<>>
Some(x) == <<x>>
IsSome(o) == o # <<>>
Unwrap(o) == o[1]

RECURSIVE Pow2(_)
Pow2(n) == IF n = 0 THEN 1 ELSE 2 * Pow2(n - 1)

U16_MAX == 65535

(***************************************************************************)
(* rgbds::section::Kind and Modifier, rgbds::RelocKind: types of the       *)
(* library crate, used by sections.rs through has_data, size, start_addr,  *)
(* banks, width and is_in_range.                                           *)
(***************************************************************************)
Kinds == {"Wram0", "Vram", "Romx", "Rom0", "Hram", "Wramx", "Sram", "Oam"}
Modifiers == {"Normal", "Union", "Fragment"}
RelocKinds == {"Byte", "Word", "Long", "Ofs8"}

\* Kind::has_data: only the ROM kinds hold emitted bytes.
has_data(kind) == kind \in {"Rom0", "Romx"}

\* Kind::start_addr
start_addr(kind) ==
    CASE kind = "Rom0"  -> 0
      [] kind = "Romx"  -> 16384
      [] kind = "Vram"  -> 32768
      [] kind = "Sram"  -> 40960
      [] kind = "Wram0" -> 49152
      [] kind = "Wramx" -> 53248
      [] kind = "Oam"   -> 65024
      [] kind = "Hram"  -> 65408

\* Kind::size(true, true): the largest size the kind may have.
size(kind) ==
    CASE kind = "Rom0"  -> 32768
      [] kind = "Romx"  -> 16384
      [] kind = "Vram"  -> 8192
      [] kind = "Sram"  -> 8192
      [] kind = "Wram0" -> 8192
      [] kind = "Wramx" -> 4096
      [] kind = "Oam"   -> 160
      [] kind = "Hram"  -> 127

\* Kind::banks(true): the inclusive range of legal banks, as [start, end].
banks(kind) ==
    CASE kind = "Rom0"  -> [start |-> 0, end |-> 0]
      [] kind = "Romx"  -> [start |-> 1, end |-> 511]
      [] kind = "Vram"  -> [start |-> 0, end |-> 1]
      [] kind = "Sram"  -> [start |-> 0, end |-> 15]
      [] kind = "Wram0" -> [start |-> 0, end |-> 0]
      [] kind = "Wramx" -> [start |-> 1, end |-> 7]
      [] kind = "Oam"   -> [start |-> 0, end |-> 0]
      [] kind = "Hram"  -> [start |-> 0, end |-> 0]

\* RelocKind::width, in bytes.
width(kind) ==
    CASE kind = "Byte" -> 1
      [] kind = "Ofs8" -> 1
      [] kind = "Word" -> 2
      [] kind = "Long" -> 4

\* The integer type RelocKind::width returns is u8: the batch total of extend
\* is accumulated in that type.
WidthBits == 8
WidthMod == Pow2(WidthBits)

\* RelocKind::is_in_range on an i32 constant: "None" when it fits the width,
\* "Loose" when it is negative and fits only as an unsigned value's
\* complement, "Strict" when it does not fit.  Every i32 fits four bytes.
is_in_range(kind, constant) ==
    LET n == 8 * width(kind) IN
    IF n >= 32 THEN "None"
    ELSE IF constant < -Pow2(n) \/ constant >= Pow2(n) THEN "Strict"
    ELSE IF constant < -Pow2(n - 1) THEN "Loose"
    ELSE "None"

\* i32::to_le_bytes: the four bytes of the two's complement, low byte first
\* (\div rounds down, so a negative constant gives its complement's bytes).
to_le_bytes(constant) ==
    [i \in 1..4 |-> (constant \div Pow2(8 * (i - 1))) % 256]

(***************************************************************************)
(* NormalizedSectAttrs                                                     *)
(***************************************************************************)
NormalizedSectAttrs(address, bank, alignment, align_offset) ==
    [address |-> address, bank |-> bank,
     alignment |-> alignment, align_offset |-> align_offset]

\* Placeholder carried by a failed try_new; never read.
NoAttrs == NormalizedSectAttrs(None, None, 0, 0)

\* constrain_address accepting one address past the kind's last.
constrain_address_inclusive(kind, addr) ==
    IF addr < 0 \/ addr > U16_MAX THEN [err |-> "AddrOutOfRange", v |-> 0]
    ELSE IF (addr - start_addr(kind)) % (U16_MAX + 1) <= size(kind)
         THEN [err |-> "Ok", v |-> addr]
         ELSE [err |-> "AddrOutOfBounds", v |-> 0]

\* The closure lowering the address expression's value (an i32).
constrain_address(kind, addr) ==
    IF addr < 0 \/ addr > U16_MAX THEN [err |-> "AddrOutOfRange", v |-> 0]
    ELSE IF (addr - start_addr(kind)) % (U16_MAX + 1) < size(kind)
         THEN [err |-> "Ok", v |-> addr]
         ELSE [err |-> "AddrOutOfBounds", v |-> 0]

\* constrain_bank looking at the range before the kind.
constrain_bank_range_first(kind, bank) ==
    IF bank >= 0 /\ banks(kind).start <= bank /\ bank <= banks(kind).end
    THEN [err |-> "Ok", v |-> bank]
    ELSE IF kind \notin {"Romx", "Vram", "Sram", "Wramx"}
         THEN [err |-> "Unbanked", v |-> 0]
         ELSE [err |-> "BankOutOfRange", v |-> 0]

\* The closure lowering the bank expression's value.  `bank as u32` turns a
\* negative i32 into a value of at least 2^31, above every kind's last bank,
\* so a negative bank is never contained in the range.
constrain_bank(kind, bank) ==
    IF kind \notin {"Romx", "Vram", "Sram", "Wramx"}
    THEN [err |-> "Unbanked", v |-> 0]
    ELSE IF bank >= 0 /\ banks(kind).start <= bank /\ bank <= banks(kind).end
         THEN [err |-> "Ok", v |-> bank]
         ELSE [err |-> "BankOutOfRange", v |-> 0]

\* The closure lowering the alignment expression's value.
constrain_alignment(alignment) ==
    IF 0 <= alignment /\ alignment <= 16
    THEN [err |-> "Ok", v |-> alignment]
    ELSE [err |-> "AlignOutOfRange", v |-> 0]

\* constrain_offset accepting the offset 2^alignment as well.
constrain_offset_inclusive(alignment, offset) ==
    IF offset >= 0 /\ offset <= Pow2(alignment)
    THEN [err |-> "Ok", v |-> offset]
    ELSE [err |-> "AlignOfsOutOfRange", v |-> 0]

\* The closure lowering the alignment offset, against the lowered alignment.
constrain_offset(alignment, offset) ==
    IF offset >= 0 /\ offset < Pow2(alignment)
    THEN [err |-> "Ok", v |-> offset]
    ELSE [err |-> "AlignOfsOutOfRange", v |-> 0]

\* eval: None stays None, Some(value) is constrained.
eval(opt, constrained) ==
    IF opt = None THEN [err |-> "Ok", v |-> None]
    ELSE [err |-> constrained.err, v |-> Some(constrained.v)]

\* try_new_checks without the comparison of the address's low bits.
try_new_checks_unmasked(kind, address, bank, alignment, align_offset) ==
    LET mask == Pow2(alignment) - 1
        first_bank == banks(kind).start
        single == first_bank = banks(kind).end
        out_bank == IF single THEN Some(first_bank) ELSE bank
        assert_ok == ~(single /\ IsSome(bank) /\ Unwrap(bank) # first_bank)
        done(addr, al) ==
            [ret |-> "Ok", assert_ok |-> assert_ok,
             attrs |-> NormalizedSectAttrs(addr, out_bank, al, align_offset)]
        fail(e) == [ret |-> e, assert_ok |-> TRUE, attrs |-> NoAttrs]
    IN  IF alignment # 0
        THEN IF IsSome(address)
             THEN done(address, 0)
             ELSE IF start_addr(kind) % (mask + 1) # 0
                  THEN fail("OverAligned")
                  ELSE IF alignment = 16
                       THEN done(Some(16), 0)
                       ELSE done(address, alignment)
        ELSE done(address, alignment)

\* try_new_checks leaving the alignment as it is once the address matches.
try_new_checks_keep_alignment(kind, address, bank, alignment, align_offset) ==
    LET mask == Pow2(alignment) - 1
        first_bank == banks(kind).start
        single == first_bank = banks(kind).end
        out_bank == IF single THEN Some(first_bank) ELSE bank
        assert_ok == ~(single /\ IsSome(bank) /\ Unwrap(bank) # first_bank)
        done(addr, al) ==
            [ret |-> "Ok", assert_ok |-> assert_ok,
             attrs |-> NormalizedSectAttrs(addr, out_bank, al, align_offset)]
        fail(e) == [ret |-> e, assert_ok |-> TRUE, attrs |-> NoAttrs]
    IN  IF alignment # 0
        THEN IF IsSome(address)
             THEN IF Unwrap(address) % (mask + 1) # align_offset
                  THEN fail("AlignMismatch")
                  ELSE done(address, alignment)
             ELSE IF start_addr(kind) % (mask + 1) # 0
                  THEN fail("OverAligned")
                  ELSE IF alignment = 16
                       THEN done(Some(16), 0)
                       ELSE done(address, alignment)
        ELSE done(address, alignment)

\* try_new_checks leaving the bank of a single-bank kind as it was given.
try_new_checks_keep_bank(kind, address, bank, alignment, align_offset) ==
    LET mask == Pow2(alignment) - 1
        first_bank == banks(kind).start
        single == first_bank = banks(kind).end
        out_bank == bank
        assert_ok == ~(single /\ IsSome(bank) /\ Unwrap(bank) # first_bank)
        done(addr, al) ==
            [ret |-> "Ok", assert_ok |-> assert_ok,
             attrs |-> NormalizedSectAttrs(addr, out_bank, al, align_offset)]
        fail(e) == [ret |-> e, assert_ok |-> TRUE, attrs |-> NoAttrs]
    IN  IF alignment # 0
        THEN IF IsSome(address)
             THEN IF Unwrap(address) % (mask + 1) # align_offset
                  THEN fail("AlignMismatch")
                  ELSE done(address, 0)
             ELSE IF start_addr(kind) % (mask + 1) # 0
                  THEN fail("OverAligned")
                  ELSE IF alignment = 16
                       THEN done(Some(16), 0)
                       ELSE done(address, alignment)
        ELSE done(address, alignment)

\* The checks of try_new once the four expressions are lowered: alignment
\* against address and kind, then the single-bank kinds.  assert_ok is the
\* debug assertion that an explicit bank of a single-bank kind is that bank.
try_new_checks(kind, address, bank, alignment, align_offset) ==
    LET mask == Pow2(alignment) - 1
        first_bank == banks(kind).start
        single == first_bank = banks(kind).end
        out_bank == IF single THEN Some(first_bank) ELSE bank
        assert_ok == ~(single /\ IsSome(bank) /\ Unwrap(bank) # first_bank)
        done(addr, al) ==
            [ret |-> "Ok", assert_ok |-> assert_ok,
             attrs |-> NormalizedSectAttrs(addr, out_bank, al, align_offset)]
        fail(e) == [ret |-> e, assert_ok |-> TRUE, attrs |-> NoAttrs]
    IN  IF alignment # 0
        THEN IF IsSome(address)
             THEN IF Unwrap(address) % (mask + 1) # align_offset
                  THEN fail("AlignMismatch")
                  ELSE done(address, 0)
             ELSE IF start_addr(kind) % (mask + 1) # 0
                  THEN fail("OverAligned")
                  ELSE IF alignment = 16
                       THEN done(Some(16), 0)
                       ELSE done(address, alignment)
        ELSE done(address, alignment)

\* NormalizedSectAttrs::try_new on the values the four optional expressions
\* evaluate to (each None or Some(i32)), lowered in the order address, bank,
\* alignment, offset; the first failure is returned.
try_new(kind, address, bank, alignment, offset) ==
    LET a == eval(address, constrain_address(kind, IF IsSome(address) THEN Unwrap(address) ELSE 0))
        b == eval(bank, constrain_bank(kind, IF IsSome(bank) THEN Unwrap(bank) ELSE 0))
        al == eval(alignment, constrain_alignment(IF IsSome(alignment) THEN Unwrap(alignment) ELSE 0))
        alv == IF IsSome(al.v) THEN Unwrap(al.v) ELSE 0
        o == eval(offset, constrain_offset(alv, IF IsSome(offset) THEN Unwrap(offset) ELSE 0))
        ov == IF IsSome(o.v) THEN Unwrap(o.v) ELSE 0
        fail(e) == [ret |-> e, assert_ok |-> TRUE, attrs |-> NoAttrs]
    IN  IF a.err # "Ok" THEN fail(a.err)
        ELSE IF b.err # "Ok" THEN fail(b.err)
        ELSE IF al.err # "Ok" THEN fail(al.err)
        ELSE IF o.err # "Ok" THEN fail(o.err)
        ELSE try_new_checks(kind, a.v, b.v, alv, ov)

(***************************************************************************)
(* Redefinition merge                                                      *)
(***************************************************************************)
\* merge storing the new declaration's bank before it reports that the two
\* differ.
merge_store_first(self, other) ==
    IF IsSome(self.bank) /\ IsSome(other.bank)
    THEN IF Unwrap(self.bank) # Unwrap(other.bank)
         THEN [ret |-> "DifferentBank", attrs |-> [self EXCEPT !.bank = other.bank]]
         ELSE [ret |-> "Ok", attrs |-> self]
    ELSE IF self.bank = None
         THEN [ret |-> "Ok", attrs |-> [self EXCEPT !.bank = other.bank]]
         ELSE [ret |-> "Ok", attrs |-> self]

\* merge taking the new declaration's bank whenever the two do not differ.
merge_newest(self, other) ==
    IF IsSome(self.bank) /\ IsSome(other.bank) /\ Unwrap(self.bank) # Unwrap(other.bank)
    THEN [ret |-> "DifferentBank", attrs |-> self]
    ELSE [ret |-> "Ok", attrs |-> [self EXCEPT !.bank = other.bank]]

\* NormalizedSectAttrs::merge: reconciles the bank; self is the stored attrs.
merge(self, other) ==
    IF IsSome(self.bank) /\ IsSome(other.bank)
    THEN IF Unwrap(self.bank) # Unwrap(other.bank)
         THEN [ret |-> "DifferentBank", attrs |-> self]
         ELSE [ret |-> "Ok", attrs |-> self]
    ELSE IF self.bank = None
         THEN [ret |-> "Ok", attrs |-> [self EXCEPT !.bank = other.bank]]
         ELSE [ret |-> "Ok", attrs |-> self]

\* NormalizedSectAttrs::merge_union: after a successful merge the function
\* reaches todo!(), which panics; the merged bank is already stored then.
merge_union(self, other) ==
    LET m == merge(self, other) IN
    IF m.ret # "Ok" THEN m ELSE [ret |-> "panic", attrs |-> m.attrs]

\* NormalizedSectAttrs::concat_fragments: the same, todo!() after the merge.
concat_fragments(self, other) ==
    LET m == merge(self, other) IN
    IF m.ret # "Ok" THEN m ELSE [ret |-> "panic", attrs |-> m.attrs]

(***************************************************************************)
(* Section store and active-section stack                                  *)
(***************************************************************************)
\* SectionData::new counting one byte as already reserved.
SectionData_new_reserved(kind, modifier, attrs) ==
    [kind |-> kind, modifier |-> modifier, attrs |-> attrs,
     patches |-> <<>>, data |-> <<>>, len_virt |-> 1]

\* SectionData::new
SectionData_new(kind, modifier, attrs) ==
    [kind |-> kind, modifier |-> modifier, attrs |-> attrs,
     patches |-> <<>>, data |-> <<>>, len_virt |-> 0]

\* ActiveSection::new
ActiveSection_new(name, offset) ==
    [name |-> name, offset |-> offset, pc_section |-> None, pc_offset |-> 0,
     label_scope |-> None, union_stack |-> <<>>]

\* Sections::new: one empty slot on the stack, nothing interned or stored.
Sections_new == [names |-> {}, sections |-> <<>>, stack |-> <<None>>]

\* redefine with the modifier comparison made before the Normal arm.
redefine_modifier_first(other, kind, modifier, attrs) ==
    LET conflict(e) == [ret |-> e, offset |-> 0, attrs |-> other.attrs] IN
    IF other.modifier # modifier THEN conflict("DifferentSectMod")
    ELSE IF other.modifier = "Normal" THEN conflict("SectAlreadyDefined")
    ELSE IF other.kind # kind THEN conflict("DifferentSectKind")
    ELSE IF other.modifier = "Union" /\ has_data(kind) THEN conflict("RomUnion")
    ELSE LET m == merge_union(other.attrs, attrs) IN
         [ret |-> m.ret, offset |-> 0, attrs |-> m.attrs]

\* redefine with the kind comparison made before the modifier comparison.
redefine_kind_first(other, kind, modifier, attrs) ==
    LET conflict(e) == [ret |-> e, offset |-> 0, attrs |-> other.attrs] IN
    IF other.modifier = "Normal" THEN conflict("SectAlreadyDefined")
    ELSE IF other.kind # kind THEN conflict("DifferentSectKind")
    ELSE IF other.modifier # modifier THEN conflict("DifferentSectMod")
    ELSE IF other.modifier = "Union"
    THEN IF has_data(kind)
         THEN conflict("RomUnion")
         ELSE LET m == merge_union(other.attrs, attrs) IN
              [ret |-> m.ret, offset |-> 0, attrs |-> m.attrs]
    ELSE LET m == concat_fragments(other.attrs, attrs) IN
         [ret |-> IF m.ret = "Ok" THEN "panic" ELSE m.ret,
          offset |-> 0, attrs |-> m.attrs]

\* redefine with the Union arm merging before it looks at the kind.
redefine_merge_first(other, kind, modifier, attrs) ==
    LET conflict(e) == [ret |-> e, offset |-> 0, attrs |-> other.attrs]
        m == merge_union(other.attrs, attrs)
    IN  IF other.modifier = "Normal" THEN conflict("SectAlreadyDefined")
        ELSE IF other.modifier # modifier THEN conflict("DifferentSectMod")
        ELSE IF other.kind # kind THEN conflict("DifferentSectKind")
        ELSE IF m.ret # "Ok" THEN [ret |-> m.ret, offset |-> 0, attrs |-> m.attrs]
        ELSE conflict("RomUnion")

\* The Entry::Occupied arm of add_section: `other` is the stored section.
\* Gives the arm's result, the cursor offset on Ok, and the stored attrs as
\* the arm leaves them.
redefine(other, kind, modifier, attrs) ==
    LET conflict(e) == [ret |-> e, offset |-> 0, attrs |-> other.attrs] IN
    IF other.modifier = "Normal" THEN conflict("SectAlreadyDefined")
    ELSE IF other.modifier # modifier THEN conflict("DifferentSectMod")
    ELSE IF other.kind # kind THEN conflict("DifferentSectKind")
    ELSE IF other.modifier = "Union"
    THEN IF has_data(kind)
         THEN conflict("RomUnion")
         ELSE LET m == merge_union(other.attrs, attrs) IN
              [ret |-> m.ret, offset |-> 0, attrs |-> m.attrs]
    ELSE LET m == concat_fragments(other.attrs, attrs) IN
         \* .map(|()| todo!()): an Ok from concat_fragments panics here.
         [ret |-> IF m.ret = "Ok" THEN "panic" ELSE m.ret,
          offset |-> 0, attrs |-> m.attrs]

\* The top slot of the stack replaced by `slot`.
set_top(stack, slot) == [stack EXCEPT ![Len(stack)] = slot]

\* add_section inserting a new section over the stored one.
add_section_insert(S, name, kind, modifier, attrs) ==
    LET interned == S.names \cup {name} IN
    IF name \in DOMAIN S.sections
    THEN LET r == redefine(S.sections[name], kind, modifier, attrs)
             stored == [S.sections EXCEPT ![name] = SectionData_new(kind, modifier, r.attrs)]
         IN  [ret |-> r.ret, names |-> interned, sections |-> stored,
              stack |-> IF r.ret = "Ok"
                        THEN set_top(S.stack, Some(ActiveSection_new(name, r.offset)))
                        ELSE S.stack]
    ELSE [ret |-> "Ok", names |-> interned,
          sections |-> S.sections @@ (name :> SectionData_new(kind, modifier, attrs)),
          stack |-> set_top(S.stack, Some(ActiveSection_new(name, 0)))]

\* add_section leaving a cursor that is already set where it is when the
\* name is new.
add_section_first_wins(S, name, kind, modifier, attrs) ==
    LET interned == S.names \cup {name} IN
    IF name \in DOMAIN S.sections
    THEN LET r == redefine(S.sections[name], kind, modifier, attrs)
             stored == [S.sections EXCEPT ![name].attrs = r.attrs]
         IN  [ret |-> r.ret, names |-> interned, sections |-> stored,
              stack |-> IF r.ret = "Ok"
                        THEN set_top(S.stack, Some(ActiveSection_new(name, r.offset)))
                        ELSE S.stack]
    ELSE [ret |-> "Ok", names |-> interned,
          sections |-> S.sections @@ (name :> SectionData_new(kind, modifier, attrs)),
          stack |-> IF S.stack[Len(S.stack)] = None
                    THEN set_top(S.stack, Some(ActiveSection_new(name, 0)))
                    ELSE S.stack]

\* Sections::add_section on the store S = [names, sections, stack]: gives
\* the call's result and the store it leaves.
add_section(S, name, kind, modifier, attrs) ==
    LET interned == S.names \cup {name} IN
    IF name \in DOMAIN S.sections
    THEN LET r == redefine(S.sections[name], kind, modifier, attrs)
             stored == [S.sections EXCEPT ![name].attrs = r.attrs]
         IN  [ret |-> r.ret, names |-> interned, sections |-> stored,
              stack |-> IF r.ret = "Ok"
                        THEN set_top(S.stack, Some(ActiveSection_new(name, r.offset)))
                        ELSE S.stack]
    ELSE [ret |-> "Ok", names |-> interned,
          sections |-> S.sections @@ (name :> SectionData_new(kind, modifier, attrs)),
          stack |-> set_top(S.stack, Some(ActiveSection_new(name, 0)))]

\* Sections::active_section / active_section_mut: None while the top slot is
\* empty, else the pair (cursor, section) the handle holds.
active_section(S) ==
    LET top_slot == S.stack[Len(S.stack)] IN
    IF top_slot = None THEN None
    ELSE Some([active |-> Unwrap(top_slot),
               sect |-> S.sections[Unwrap(top_slot).name]])

\* SectionHandle::try_get_pc
try_get_pc(sect) ==
    IF sect.attrs.address = None THEN None
    ELSE LET len == IF Len(sect.data) <= U16_MAX THEN Len(sect.data) ELSE U16_MAX
         IN  Some((Unwrap(sect.attrs.address) + len) % (U16_MAX + 1))

(***************************************************************************)
(* Emission                                                                *)
(***************************************************************************)
\* An Rpn expression: a constant, or one that refers to an unresolved symbol.
Const(c) == [constant |-> Some(c), sym |-> ""]
Sym(s) == [constant |-> None, sym |-> s]

\* Rpn::try_get_constant
try_get_constant(rpn) == rpn.constant

\* ByteOrExpr::Byte and ByteOrExpr::Expr
Byte(b) == [tag |-> "Byte", byte |-> b, rpn |-> Const(b), kind |-> "Byte"]
Expr(rpn, kind) == [tag |-> "Expr", byte |-> 0, rpn |-> rpn, kind |-> kind]

\* The width one item adds to the batch total.
item_len(item) == IF item.tag = "Byte" THEN 1 ELSE width(item.kind)

\* The mathematical sum of the item widths of slice[lo..hi] (halving the
\* range keeps the evaluation shallow for long batches).
RECURSIVE sum_len(_, _, _)
sum_len(slice, lo, hi) ==
    IF lo > hi THEN 0
    ELSE IF lo = hi THEN item_len(slice[lo])
    ELSE LET mid == (lo + hi) \div 2 IN
         sum_len(slice, lo, mid) + sum_len(slice, mid + 1, hi)

\* The mathematical total width of a batch.
batch_len(slice) == sum_len(slice, 1, Len(slice))

\* total_len: the fold of extend, accumulated in the type of width().  The
\* addition overflows when the sum does not fit: a debug build panics, a
\* release build wraps.
total_len(slice) ==
    LET sum == batch_len(slice) IN
    [overflow |-> sum >= WidthMod, v |-> sum % WidthMod]

\* The warning extend passes to warn for a constant that is out of range.
Warning(level, kind) ==
    [kind |-> "Truncation", level |-> level, width |-> width(kind) * 8]

\* item_bytes keeping the high-order end of the four bytes.
item_bytes_high(item) ==
    IF item.tag = "Byte" THEN <<item.byte>>
    ELSE LET c == try_get_constant(item.rpn)
             bytes == IF IsSome(c) THEN to_le_bytes(Unwrap(c))
                      ELSE [i \in 1..4 |-> 0]
         IN  SubSeq(bytes, 5 - width(item.kind), 4)

\* item_bytes leaving the item's own bytes where a relocation is recorded.
item_bytes_unpatched(item) ==
    IF item.tag = "Byte" THEN <<item.byte>>
    ELSE LET c == try_get_constant(item.rpn)
             bytes == IF IsSome(c) THEN to_le_bytes(Unwrap(c))
                      ELSE [i \in 1..4 |-> 255]
         IN  SubSeq(bytes, 1, width(item.kind))

\* The bytes one item appends to data.
item_bytes(item) ==
    IF item.tag = "Byte" THEN <<item.byte>>
    ELSE LET c == try_get_constant(item.rpn)
             bytes == IF IsSome(c) THEN to_le_bytes(Unwrap(c))
                      ELSE [i \in 1..4 |-> 0]
         IN  SubSeq(bytes, 1, width(item.kind))

\* The warnings one item raises.
item_warnings(item) ==
    IF item.tag = "Byte" \/ try_get_constant(item.rpn) = None THEN <<>>
    ELSE LET level == is_in_range(item.kind, Unwrap(try_get_constant(item.rpn))) IN
         CASE level = "None"   -> <<>>
           [] level = "Loose"  -> <<Warning(2, item.kind)>>
           [] level = "Strict" -> <<Warning(1, item.kind)>>

\* Relocation with the offsets read after the cursor has advanced.
Relocation_after(active, item) ==
    [offset |-> active.offset + width(item.kind), pc_section |-> active.pc_section,
     pc_offset |-> active.pc_offset + width(item.kind),
     kind |-> item.kind, rpn |-> item.rpn]

\* The relocation recorded for an item that does not fold to a constant,
\* taken from the cursor as it stands before the item.
Relocation(active, item) ==
    [offset |-> active.offset, pc_section |-> active.pc_section,
     pc_offset |-> active.pc_offset, kind |-> item.kind, rpn |-> item.rpn]

\* advance counting one for each item, whatever its width.
advance_by_item(active, n) ==
    [active EXCEPT !.offset = @ + (IF n > 0 THEN 1 ELSE 0),
                   !.pc_offset = @ + (IF n > 0 THEN 1 ELSE 0)]

\* The cursor after items of total width n: each item advances offset and
\* pc_offset by its own width.
advance(active, n) ==
    [active EXCEPT !.offset = @ + n, !.pc_offset = @ + n]

\* One pass of the loop body of extend over w = [active, bytes, patches,
\* warnings]: bytes, patches and warnings are what the batch has appended so
\* far to data, to the section's patches and to the warning sink.
write_item(w, item) ==
    LET reloc == item.tag = "Expr" /\ try_get_constant(item.rpn) = None IN
    [active   |-> advance(w.active, item_len(item)),
     bytes    |-> w.bytes \o item_bytes(item),
     patches  |-> IF reloc THEN Append(w.patches, Relocation(w.active, item))
                  ELSE w.patches,
     warnings |-> w.warnings \o item_warnings(item)]

\* The loop of extend over slice[lo..hi], entered with the cursor `active`:
\* the items in order, the second half of the range starting from the cursor
\* the first half leaves (halving keeps the evaluation shallow).
RECURSIVE write_items(_, _, _, _)
write_items(active, slice, lo, hi) ==
    LET start == [active |-> active, bytes |-> <<>>, patches |-> <<>>, warnings |-> <<>>] IN
    IF lo > hi THEN start
    ELSE IF lo = hi THEN write_item(start, slice[lo])
    ELSE LET mid == (lo + hi) \div 2
             l == write_items(active, slice, lo, mid)
             r == write_items(advance(active, sum_len(slice, lo, mid)), slice, mid + 1, hi)
         IN  [active |-> r.active, bytes |-> l.bytes \o r.bytes,
              patches |-> l.patches \o r.patches,
              warnings |-> l.warnings \o r.warnings]

\* usize::saturating_add: the sum, which stays far below usize::MAX (a call
\* adds less than 2^WidthBits).
saturating_add(a, b) == a + b

\* extend with the batch accounted in len_virt before the kind is checked.
extend_late_check(build, active, sect, slice) ==
    LET counted == [sect EXCEPT !.len_virt = saturating_add(@, total_len(slice).v)] IN
    [ret |-> "NotCodeSection", active |-> active, sect |-> counted, warnings |-> <<>>]

\* SectionHandleMut::extend on the handle (active, sect) in the given build
\* ("debug" or "release"): gives the call's result, the cursor and section
\* it leaves and the warnings passed to warn.
extend(build, active, sect, slice) ==
    LET same(r) == [ret |-> r, active |-> active, sect |-> sect, warnings |-> <<>>]
        total == total_len(slice)
        virt == saturating_add(sect.len_virt, total.v)
        w == write_items(active, slice, 1, Len(slice))
        written == [sect EXCEPT !.len_virt = virt,
                                !.data = @ \o w.bytes,
                                !.patches = @ \o w.patches]
    IN  IF ~has_data(sect.kind) THEN same("NotCodeSection")
        ELSE IF total.overflow /\ build = "debug" THEN same("panic")
        ELSE IF virt <= size(sect.kind)
        THEN [ret |-> IF build = "debug" /\ virt # Len(written.data)
                      THEN "panic" ELSE "Ok",
              active |-> w.active, sect |-> written, warnings |-> w.warnings]
        ELSE [ret |-> "Ok", active |-> active,
              sect |-> [sect EXCEPT !.len_virt = virt], warnings |-> <<>>]

(***************************************************************************)
(* The fixer's arguments (src/src/fix/args.rs)                             *)
(*                                                                         *)
(* A bitflags value is modelled as the set of the names of its flags: the  *)
(* flags of FixSpec and of MBCExtension each own one bit.                  *)
(***************************************************************************)
FixSpec_all ==
    {"FIX_LOGO", "TRASH_LOGO", "FIX_HEADER_SUM", "TRASH_HEADER_SUM",
     "FIX_GLOBAL_SUM", "TRASH_GLOBAL_SUM"}

\* A match arm that sets its flag and leaves the flag of the other case.
fixspec_arm_keep(acc, variant, other) ==
    [flags |-> acc.flags \cup {variant},
     warnings |-> IF other \in acc.flags
                  THEN Append(acc.warnings, "overwrites")
                  ELSE acc.warnings]

\* One arm of the match on c: the flag of the other case is removed with a
\* warning when it is set, then the arm's flag is set.
fixspec_arm(acc, variant, other) ==
    [flags |-> (acc.flags \ {other}) \cup {variant},
     warnings |-> IF other \in acc.flags
                  THEN Append(acc.warnings, "overwrites")
                  ELSE acc.warnings]

\* The body of the loop over s.chars().
fixspec_char(acc, c) ==
    CASE c = "l" -> fixspec_arm(acc, "FIX_LOGO", "TRASH_LOGO")
      [] c = "L" -> fixspec_arm(acc, "TRASH_LOGO", "FIX_LOGO")
      [] c = "h" -> fixspec_arm(acc, "FIX_HEADER_SUM", "TRASH_HEADER_SUM")
      [] c = "H" -> fixspec_arm(acc, "TRASH_HEADER_SUM", "FIX_HEADER_SUM")
      [] c = "g" -> fixspec_arm(acc, "FIX_GLOBAL_SUM", "TRASH_GLOBAL_SUM")
      [] c = "G" -> fixspec_arm(acc, "TRASH_GLOBAL_SUM", "FIX_GLOBAL_SUM")
      [] OTHER -> [acc EXCEPT !.warnings = Append(@, "unknown")]

RECURSIVE fixspec_chars(_, _, _)
fixspec_chars(acc, s, i) ==
    IF i > Len(s) THEN acc
    ELSE fixspec_chars(fixspec_char(acc, s[i]), s, i + 1)

\* FixSpec::from_str: its error type is Infallible, the result is always Ok.
FixSpec_from_str(s) ==
    LET result == fixspec_chars([flags |-> {}, warnings |-> <<>>], s, 1) IN
    [ret |-> "Ok", flags |-> result.flags, warnings |-> result.warnings]

\* ASCII letters, for the comparisons that ignore case.
Lowercase ==
    <<"a", "b", "c", "d", "e", "f", "g", "h", "i", "j", "k", "l", "m",
      "n", "o", "p", "q", "r", "s", "t", "u", "v", "w", "x", "y", "z">>

Uppercase ==
    <<"A", "B", "C", "D", "E", "F", "G", "H", "I", "J", "K", "L", "M",
      "N", "O", "P", "Q", "R", "S", "T", "U", "V", "W", "X", "Y", "Z">>

to_ascii_uppercase(c) ==
    IF \E i \in DOMAIN Lowercase : Lowercase[i] = c
    THEN Uppercase[CHOOSE i \in DOMAIN Lowercase : Lowercase[i] = c]
    ELSE c

eq_ignore_ascii_case(a, b) ==
    /\ Len(a) = Len(b)
    /\ \A i \in 1..Len(a) : to_ascii_uppercase(a[i]) = to_ascii_uppercase(b[i])

Whitespace == {" ", "\t"}

\* str::trim: the whitespace at both ends is dropped.
RECURSIVE trim(_)
trim(s) ==
    IF s = <<>> THEN s
    ELSE IF Head(s) \in Whitespace THEN trim(Tail(s))
    ELSE IF s[Len(s)] \in Whitespace THEN trim(SubSeq(s, 1, Len(s) - 1))
    ELSE s

\* str::split on a set of characters: the pieces between the separators,
\* the empty ones included.
RECURSIVE split_from(_, _, _, _)
split_from(s, seps, i, piece) ==
    IF i > Len(s) THEN <<piece>>
    ELSE IF s[i] \in seps THEN <<piece>> \o split_from(s, seps, i + 1, <<>>)
    ELSE split_from(s, seps, i + 1, Append(piece, s[i]))

split(s, seps) == split_from(s, seps, 1, <<>>)

MBCTypes ==
    {"ROM", "MBC1", "MBC2", "MMM01", "MBC3", "MBC5", "MBC6", "MBC7",
     "POCKET_CAMERA", "BANDAI_TAMA5", "HUC1", "HUC3", "TPP1"}

MBCExtensions == {"RAM", "BATTERY", "TIMER", "RUMBLE", "SENSOR", "MULTIRUMBLE"}

valid_extensions(ty) ==
    CASE ty \in {"ROM", "MBC1", "MMM01"} -> {"RAM", "BATTERY"}
      [] ty = "MBC2" -> {"BATTERY"}
      [] ty = "MBC3" -> {"RAM", "BATTERY", "TIMER"}
      [] ty = "MBC5" -> {"RAM", "BATTERY", "RUMBLE"}
      [] ty \in {"MBC6", "POCKET_CAMERA", "BANDAI_TAMA5", "HUC3"} -> {}
      [] ty = "MBC7" -> {"RAM", "BATTERY", "SENSOR", "RUMBLE"}
      [] ty = "HUC1" -> {"RAM", "BATTERY"}
      [] ty = "TPP1" -> {"RAM", "BATTERY", "MULTIRUMBLE", "RUMBLE"}

can_have_extension(ty, extension) == extension \in valid_extensions(ty)

\* The names match_mbc_ty! tries, in its order, and the type each one gives.
MBC_type_names == <<
    [name |-> <<"R", "O", "M", "_", "O", "N", "L", "Y">>,
     value |-> "ROM"],
    [name |-> <<"R", "O", "M">>,
     value |-> "ROM"],
    [name |-> <<"M", "M", "M", "0", "1">>,
     value |-> "MMM01"],
    [name |-> <<"M", "B", "C", "1">>,
     value |-> "MBC1"],
    [name |-> <<"M", "B", "C", "2">>,
     value |-> "MBC2"],
    [name |-> <<"M", "B", "C", "3">>,
     value |-> "MBC3"],
    [name |-> <<"M", "B", "C", "5">>,
     value |-> "MBC5"],
    [name |-> <<"M", "B", "C", "6">>,
     value |-> "MBC6"],
    [name |-> <<"P", "O", "C", "K", "E", "T", "_", "C", "A", "M", "E", "R", "A">>,
     value |-> "POCKET_CAMERA"],
    [name |-> <<"B", "A", "N", "D", "A", "I", "_", "T", "A", "M", "A", "5">>,
     value |-> "BANDAI_TAMA5"],
    [name |-> <<"H", "U", "C", "1">>,
     value |-> "HUC1"],
    [name |-> <<"H", "U", "C", "3">>,
     value |-> "HUC3"],
    [name |-> <<"T", "P", "P", "1">>,
     value |-> "TPP1"]
>>

\* The names match_ram! tries, in its order.
MBC_extension_names == <<
    [name |-> <<"R", "A", "M">>,
     value |-> "RAM"],
    [name |-> <<"B", "A", "T", "T", "E", "R", "Y">>,
     value |-> "BATTERY"],
    [name |-> <<"T", "I", "M", "E", "R">>,
     value |-> "TIMER"],
    [name |-> <<"R", "U", "M", "B", "L", "E">>,
     value |-> "RUMBLE"],
    [name |-> <<"S", "E", "N", "S", "O", "R">>,
     value |-> "SENSOR"],
    [name |-> <<"M", "U", "L", "T", "I", "R", "U", "M", "B", "L", "E">>,
     value |-> "MULTIRUMBLE"]
>>

\* The names print_help lists under "Accepted MBC types", each with the type
\* and the extensions its text names (ROM_ONLY is listed as another name of
\* ROM, TPP1_1.0 is the TPP1 mapper).
print_help == <<
    [name |-> <<"R", "O", "M">>,
     ty |-> "ROM", extensions |-> {}],
    [name |-> <<"R", "O", "M", "_", "O", "N", "L", "Y">>,
     ty |-> "ROM", extensions |-> {}],
    [name |-> <<"M", "B", "C", "1">>,
     ty |-> "MBC1", extensions |-> {}],
    [name |-> <<"M", "B", "C", "1", "+", "R", "A", "M">>,
     ty |-> "MBC1", extensions |-> {"RAM"}],
    [name |-> 
        <<"M", "B", "C", "1", "+", "R", "A", "M", "+", "B", "A", "T", "T",
          "E", "R", "Y">>,
     ty |-> "MBC1", extensions |-> {"RAM", "BATTERY"}],
    [name |-> <<"M", "B", "C", "2">>,
     ty |-> "MBC2", extensions |-> {}],
    [name |-> <<"M", "B", "C", "2", "+", "B", "A", "T", "T", "E", "R", "Y">>,
     ty |-> "MBC2", extensions |-> {"BATTERY"}],
    [name |-> <<"R", "O", "M", "+", "R", "A", "M">>,
     ty |-> "ROM", extensions |-> {"RAM"}],
    [name |-> 
        <<"R", "O", "M", "+", "R", "A", "M", "+", "B", "A", "T", "T", "E",
          "R", "Y">>,
     ty |-> "ROM", extensions |-> {"RAM", "BATTERY"}],
    [name |-> <<"M", "M", "M", "0", "1">>,
     ty |-> "MMM01", extensions |-> {}],
    [name |-> <<"M", "M", "M", "0", "1", "+", "R", "A", "M">>,
     ty |-> "MMM01", extensions |-> {"RAM"}],
    [name |-> 
        <<"M", "M", "M", "0", "1", "+", "R", "A", "M", "+", "B", "A", "T",
          "T", "E", "R", "Y">>,
     ty |-> "MMM01", extensions |-> {"RAM", "BATTERY"}],
    [name |-> 
        <<"M", "B", "C", "3", "+", "T", "I", "M", "E", "R", "+", "B", "A",
          "T", "T", "E", "R", "Y">>,
     ty |-> "MBC3", extensions |-> {"TIMER", "BATTERY"}],
    [name |-> 
        <<"M", "B", "C", "3", "+", "T", "I", "M", "E", "R", "+", "R", "A",
          "M", "+", "B", "A", "T", "T", "E", "R", "Y">>,
     ty |-> "MBC3", extensions |-> {"TIMER", "RAM", "BATTERY"}],
    [name |-> <<"M", "B", "C", "3">>,
     ty |-> "MBC3", extensions |-> {}],
    [name |-> <<"M", "B", "C", "3", "+", "R", "A", "M">>,
     ty |-> "MBC3", extensions |-> {"RAM"}],
    [name |-> 
        <<"M", "B", "C", "3", "+", "R", "A", "M", "+", "B", "A", "T", "T",
          "E", "R", "Y">>,
     ty |-> "MBC3", extensions |-> {"RAM", "BATTERY"}],
    [name |-> <<"M", "B", "C", "5">>,
     ty |-> "MBC5", extensions |-> {}],
    [name |-> <<"M", "B", "C", "5", "+", "R", "A", "M">>,
     ty |-> "MBC5", extensions |-> {"RAM"}],
    [name |-> 
        <<"M", "B", "C", "5", "+", "R", "A", "M", "+", "B", "A", "T", "T",
          "E", "R", "Y">>,
     ty |-> "MBC5", extensions |-> {"RAM", "BATTERY"}],
    [name |-> <<"M", "B", "C", "5", "+", "R", "U", "M", "B", "L", "E">>,
     ty |-> "MBC5", extensions |-> {"RUMBLE"}],
    [name |-> 
        <<"M", "B", "C", "5", "+", "R", "U", "M", "B", "L", "E", "+", "R",
          "A", "M">>,
     ty |-> "MBC5", extensions |-> {"RUMBLE", "RAM"}],
    [name |-> 
        <<"M", "B", "C", "5", "+", "R", "U", "M", "B", "L", "E", "+", "R",
          "A", "M", "+", "B", "A", "T", "T", "E", "R", "Y">>,
     ty |-> "MBC5", extensions |-> {"RUMBLE", "RAM", "BATTERY"}],
    [name |-> <<"M", "B", "C", "6">>,
     ty |-> "MBC6", extensions |-> {}],
    [name |-> 
        <<"M", "B", "C", "7", "+", "S", "E", "N", "S", "O", "R", "+", "R",
          "U", "M", "B", "L", "E", "+", "R", "A", "M", "+", "B", "A", "T",
          "T", "E", "R", "Y">>,
     ty |-> "MBC7", extensions |-> {"SENSOR", "RUMBLE", "RAM", "BATTERY"}],
    [name |-> 
        <<"P", "O", "C", "K", "E", "T", "_", "C", "A", "M", "E", "R", "A">>,
     ty |-> "POCKET_CAMERA", extensions |-> {}],
    [name |-> <<"B", "A", "N", "D", "A", "I", "_", "T", "A", "M", "A", "5">>,
     ty |-> "BANDAI_TAMA5", extensions |-> {}],
    [name |-> <<"H", "U", "C", "3">>,
     ty |-> "HUC3", extensions |-> {}],
    [name |-> 
        <<"H", "U", "C", "1", "+", "R", "A", "M", "+", "B", "A", "T", "T",
          "E", "R", "Y">>,
     ty |-> "HUC1", extensions |-> {"RAM", "BATTERY"}],
    [name |-> <<"T", "P", "P", "1", "_", "1", ".", "0">>,
     ty |-> "TPP1", extensions |-> {}],
    [name |-> 
        <<"T", "P", "P", "1", "_", "1", ".", "0", "+", "R", "U", "M", "B",
          "L", "E">>,
     ty |-> "TPP1", extensions |-> {"RUMBLE"}],
    [name |-> 
        <<"T", "P", "P", "1", "_", "1", ".", "0", "+", "M", "U", "L", "T",
          "I", "R", "U", "M", "B", "L", "E">>,
     ty |-> "TPP1", extensions |-> {"MULTIRUMBLE"}],
    [name |-> 
        <<"T", "P", "P", "1", "_", "1", ".", "0", "+", "T", "I", "M", "E",
          "R">>,
     ty |-> "TPP1", extensions |-> {"TIMER"}],
    [name |-> 
        <<"T", "P", "P", "1", "_", "1", ".", "0", "+", "T", "I", "M", "E",
          "R", "+", "R", "U", "M", "B", "L", "E">>,
     ty |-> "TPP1", extensions |-> {"TIMER", "RUMBLE"}],
    [name |-> 
        <<"T", "P", "P", "1", "_", "1", ".", "0", "+", "T", "I", "M", "E",
          "R", "+", "M", "U", "L", "T", "I", "R", "U", "M", "B", "L", "E">>,
     ty |-> "TPP1", extensions |-> {"TIMER", "MULTIRUMBLE"}],
    [name |-> 
        <<"T", "P", "P", "1", "_", "1", ".", "0", "+", "B", "A", "T", "T",
          "E", "R", "Y">>,
     ty |-> "TPP1", extensions |-> {"BATTERY"}],
    [name |-> 
        <<"T", "P", "P", "1", "_", "1", ".", "0", "+", "B", "A", "T", "T",
          "E", "R", "Y", "+", "R", "U", "M", "B", "L", "E">>,
     ty |-> "TPP1", extensions |-> {"BATTERY", "RUMBLE"}],
    [name |-> 
        <<"T", "P", "P", "1", "_", "1", ".", "0", "+", "B", "A", "T", "T",
          "E", "R", "Y", "+", "M", "U", "L", "T", "I", "R", "U", "M", "B",
          "L", "E">>,
     ty |-> "TPP1", extensions |-> {"BATTERY", "MULTIRUMBLE"}],
    [name |-> 
        <<"T", "P", "P", "1", "_", "1", ".", "0", "+", "B", "A", "T", "T",
          "E", "R", "Y", "+", "T", "I", "M", "E", "R">>,
     ty |-> "TPP1", extensions |-> {"BATTERY", "TIMER"}],
    [name |-> 
        <<"T", "P", "P", "1", "_", "1", ".", "0", "+", "B", "A", "T", "T",
          "E", "R", "Y", "+", "T", "I", "M", "E", "R", "+", "R", "U", "M",
          "B", "L", "E">>,
     ty |-> "TPP1", extensions |-> {"BATTERY", "TIMER", "RUMBLE"}],
    [name |-> 
        <<"T", "P", "P", "1", "_", "1", ".", "0", "+", "B", "A", "T", "T",
          "E", "R", "Y", "+", "T", "I", "M", "E", "R", "+", "M", "U", "L",
          "T", "I", "R", "U", "M", "B", "L", "E">>,
     ty |-> "TPP1", extensions |-> {"BATTERY", "TIMER", "MULTIRUMBLE"}]
>>

HelpNames == {print_help[i].name : i \in DOMAIN print_help}

\* s.get(..name.len()) is Some of a slice that equals name, case ignored.
starts_with_ignore_case(s, name) ==
    /\ Len(name) <= Len(s)
    /\ eq_ignore_ascii_case(SubSeq(s, 1, Len(name)), name)

\* match_mbc_ty!: the first name of the table that s starts with gives the
\* type and the rest of s; None when no name matches.
match_mbc_ty(s) ==
    LET hits == {i \in DOMAIN MBC_type_names :
                    starts_with_ignore_case(s, MBC_type_names[i].name)} IN
    IF hits = {} THEN None
    ELSE LET i == CHOOSE i \in hits : \A j \in hits : i <= j IN
         Some([ty |-> MBC_type_names[i].value,
               remaining |-> SubSeq(s, Len(MBC_type_names[i].name) + 1,
                                    Len(s))])

\* match_ram!: the extension rem names, case ignored; None when it names none.
match_ram(rem) ==
    LET hits == {i \in DOMAIN MBC_extension_names :
                    eq_ignore_ascii_case(rem, MBC_extension_names[i].name)} IN
    IF hits = {} THEN None
    ELSE Some(MBC_extension_names[CHOOSE i \in hits : TRUE].value)

\* The loop over the pieces of remaining: an empty piece is skipped, an
\* unknown one is an error, one the type cannot have ends the process.
RECURSIVE mbc_extensions(_, _, _, _)
mbc_extensions(ty, pieces, i, extensions) ==
    IF i > Len(pieces)
    THEN [ret |-> "Ok", ty |-> Some(ty), extensions |-> extensions]
    ELSE LET rem == trim(pieces[i])
             e == match_ram(rem) IN
         IF rem = <<>> THEN mbc_extensions(ty, pieces, i + 1, extensions)
         ELSE IF ~IsSome(e)
         THEN [ret |-> "Invalid extension", ty |-> None, extensions |-> {}]
         ELSE IF ~can_have_extension(ty, Unwrap(e))
         THEN [ret |-> "exit", ty |-> None, extensions |-> {}]
         ELSE mbc_extensions(ty, pieces, i + 1, extensions \cup {Unwrap(e)})

\* MBC::from_str.  ret is "Ok", the message of the Err, or "exit" when the
\* function ends the process (after the help, or on an extension the type
\* cannot have).
MBC_from_str(s) ==
    IF eq_ignore_ascii_case(s, <<"h", "e", "l", "p">>)
    THEN [ret |-> "exit", ty |-> None, extensions |-> {}]
    ELSE LET m == match_mbc_ty(s) IN
         IF ~IsSome(m)
         THEN [ret |-> "Invalid MBC type", ty |-> None, extensions |-> {}]
         ELSE mbc_extensions(Unwrap(m).ty,
                             split(Unwrap(m).remaining, {"+", "_", " "}),
                             1, {})

(***************************************************************************)
(* The state machine                                                       *)
(***************************************************************************)
VARIABLES
    build,      \* "debug" or "release": how the crate was compiled
    names,      \* Sections::names, the symbols interned so far
    sections,   \* Sections::sections, symbol -> SectionData
    stack,      \* Sections::stack, a sequence of Option<ActiveSection>
    op,         \* the last operation called
    ret,        \* its result: "Ok", an AsmErrorKind, or "panic"
    warnings,   \* the warnings the last extend passed to its warn callback
    requested,  \* per section, the item widths summed over the extend calls that returned Ok
    spent,      \* number of extend calls so far, fill batches not counted
    normalized, \* the last try_new call made on its own: None, or Some of its
                \* arguments and its result
    parsed      \* the last command-line argument parsed by the fixer: None, or
                \* Some of the parser, its input and its result

vars == <<build, names, sections, stack, op, ret, warnings, requested, spent,
          normalized, parsed>>

\* Bounds of the exploration.
MaxExtends == 1
FillLen == 252
MaxFixLen == 3

Builds == {"debug", "release"}

\* The symbols of the section names used.  The interner numbers the names in
\* the order they are first seen, so a call names a symbol already interned
\* or the next one.
Names == {0, 1}
NextNames(limit) == { n \in limit : n <= Cardinality(names) }

\* The values of the optional address, bank, alignment and offset
\* expressions tried for a kind: none given; the kind's last address; its
\* first or its last bank; an alignment of 4 bits with offset 1.
Raw(a, b, al, o) == [address |-> a, bank |-> b, alignment |-> al, offset |-> o]
NoRaw == Raw(None, None, None, None)
RawAttrs(kind) ==
    { NoRaw,
      Raw(Some(start_addr(kind) + size(kind) - 1), None, None, None),
      Raw(None, Some(banks(kind).start), None, None),
      Raw(None, Some(banks(kind).end), None, None),
      Raw(None, None, Some(4), Some(1)) }

\* The batches tried by extend.
SmallBatches ==
    { <<>>,
      <<Byte(18)>>,
      <<Expr(Const(255), "Byte")>>,
      <<Expr(Const(256), "Byte")>>,
      <<Expr(Const(-129), "Ofs8"), Expr(Const(66000), "Word")>>,
      <<Expr(Sym("x"), "Word")>>,
      <<Byte(1), Expr(Sym("y"), "Byte"), Expr(Const(-2), "Long"), Expr(Sym("x"), "Long")>> }

\* The shortest batch of bytes whose total width does not fit width()'s type.
WrapBatch == [i \in 1..WidthMod |-> Byte(0)]

\* A batch of FillLen bytes, used to fill a section up to its kind's size.
FillBatch == [i \in 1..FillLen |-> Byte(0)]

Batches == SmallBatches \cup {WrapBatch}

\* The batches tried where the sections or their fill level vary most: a
\* byte, an unresolved word, a batch of ten bytes and the wrapping batch.
FewBatches ==
    { b \in Batches : b \in {<<Byte(18)>>, <<Expr(Sym("x"), "Word")>>}
                        \/ batch_len(b) >= 10 }

Init ==
    /\ build \in Builds
    /\ names = Sections_new.names
    /\ sections = Sections_new.sections
    /\ stack = Sections_new.stack
    /\ op = "new"
    /\ ret = "Ok"
    /\ warnings = <<>>
    /\ requested = <<>>
    /\ spent = 0
    /\ normalized = None
    /\ parsed = None

Store == [names |-> names, sections |-> sections, stack |-> stack]

\* The attributes try_new accepts for a kind, out of RawAttrs.
Normalized(kind) ==
    { try_new(kind, raw.address, raw.bank, raw.alignment, raw.offset).attrs :
        raw \in { r \in RawAttrs(kind) :
                    try_new(kind, r.address, r.bank, r.alignment, r.offset).ret = "Ok" } }

\* A declaration: the attribute expressions are normalised by try_new and,
\* when that succeeds, add_section is called with the result.
Declare(name, kind, modifier, raw) ==
    LET n == try_new(kind, raw.address, raw.bank, raw.alignment, raw.offset)
        r == add_section(Store, name, kind, modifier, n.attrs)
    IN  /\ ret # "panic"
        /\ n.ret = "Ok"
        /\ names' = r.names
        /\ sections' = r.sections
        /\ stack' = r.stack
        /\ op' = "add_section"
        /\ ret' = r.ret
        /\ warnings' = <<>>
        /\ requested' = IF name \in DOMAIN requested THEN requested
                        ELSE requested @@ (name :> 0)
        /\ UNCHANGED <<build, spent, normalized, parsed>>

\* extend called on the handle active_section_mut returns.
Emit(slice, counted) ==
    /\ ret # "panic"
    /\ active_section(Store) # None
    /\ LET h == Unwrap(active_section(Store))
           name == h.active.name
           r == extend(build, h.active, h.sect, slice)
       IN  /\ sections' = [sections EXCEPT ![name] = r.sect]
           /\ stack' = set_top(stack, Some(r.active))
           /\ op' = "extend"
           /\ ret' = r.ret
           /\ warnings' = r.warnings
           /\ requested' = IF has_data(h.sect.kind) /\ r.ret = "Ok"
                           THEN [requested EXCEPT ![name] = @ + batch_len(slice)]
                           ELSE requested
    /\ spent' = IF counted THEN spent + 1 ELSE spent
    /\ UNCHANGED <<build, names, normalized, parsed>>

(***************************************************************************)
(* Spec: two section names, every modifier, no attributes given, and one   *)
(* kind of each sort: with or without data, with one bank or several.      *)
(***************************************************************************)
SomeKinds == {"Rom0", "Romx", "Wram0", "Wramx"}

AddSection ==
    \E name \in NextNames(Names), kind \in SomeKinds, modifier \in Modifiers :
        Declare(name, kind, modifier, NoRaw)

Extend ==
    /\ spent < MaxExtends
    /\ \E slice \in FewBatches : Emit(slice, TRUE)

Next == AddSection \/ Extend

Spec == Init /\ [][Next]_vars

(***************************************************************************)
(* SpecAttrs: one section name, declared and redeclared with every kind,   *)
(* modifier and attribute combination of RawAttrs.                         *)
(***************************************************************************)
AddSectionAttrs ==
    \E kind \in Kinds, modifier \in Modifiers :
        \E raw \in RawAttrs(kind) : Declare(0, kind, modifier, raw)

ExtendAttrs ==
    /\ spent < MaxExtends
    /\ \E slice \in Batches : Emit(slice, TRUE)

NextAttrs == AddSectionAttrs \/ ExtendAttrs

SpecAttrs == Init /\ [][NextAttrs]_vars

(***************************************************************************)
(* SpecBulk: one data-holding section explored in depth.  It is first      *)
(* filled with batches of FillLen bytes, as far as just over its kind's    *)
(* size, and the other batches follow.                                     *)
(***************************************************************************)
AddSectionBulk ==
    /\ sections = Sections_new.sections
    /\ \E kind \in {"Rom0", "Romx"} :
       \E raw \in { r \in RawAttrs(kind) : r.bank = None /\ r.alignment = None } :
           Declare(0, kind, "Normal", raw)

ExtendFill ==
    /\ spent = 0
    /\ active_section(Store) # None
    /\ LET sect == Unwrap(active_section(Store)).sect IN
       sect.len_virt <= size(sect.kind)
    /\ Emit(FillBatch, FALSE)

ExtendBulk ==
    /\ spent < MaxExtends
    /\ \E slice \in FewBatches : Emit(slice, TRUE)

NextBulk == AddSectionBulk \/ ExtendFill \/ ExtendBulk

SpecBulk == Init /\ [][NextBulk]_vars

(***************************************************************************)
(* SpecNormalize: one try_new call on a kind with values around every      *)
(* limit try_new tests, then add_section with the attributes it returned.  *)
(***************************************************************************)
\* Values of the address expression: none; outside 16 bits on either side;
\* the ends of the 16-bit range; 16; the kind's first and last address and
\* their neighbours.
AddrInputs(kind) ==
    {None} \cup
    { Some(v) : v \in { -1, 0, 16, U16_MAX, U16_MAX + 1,
                        start_addr(kind) - 1, start_addr(kind),
                        start_addr(kind) + 1,
                        start_addr(kind) + size(kind) - 1,
                        start_addr(kind) + size(kind) } }

\* Values of the bank expression: none; negative; the kind's first and last
\* bank and their neighbours.
BankInputs(kind) ==
    {None} \cup
    { Some(v) : v \in { -1, banks(kind).start - 1, banks(kind).start,
                        banks(kind).end, banks(kind).end + 1 } }

\* Values of the alignment expression: none; the ends of 0..=16 and their
\* neighbours; 4.
AlignInputs == {None} \cup { Some(v) : v \in {-1, 0, 1, 4, 16, 17} }

\* Values of the offset expression: none; negative; small offsets; the
\* first offset too large for an alignment of 1, of 4 and of 16.
OffsetInputs == {None} \cup { Some(v) : v \in {-1, 0, 1, 2, 16, U16_MAX + 1} }

\* try_new called on its own.  In a debug build the failed assertion on the
\* bank of a single-bank kind panics.
Normalize(kind, address, bank, alignment, offset) ==
    LET r == try_new(kind, address, bank, alignment, offset) IN
    /\ normalized' = Some([kind |-> kind, address |-> address, bank |-> bank,
                           alignment |-> alignment, offset |-> offset,
                           ret |-> r.ret, assert_ok |-> r.assert_ok,
                           attrs |-> r.attrs])
    /\ op' = "try_new"
    /\ ret' = IF build = "debug" /\ ~r.assert_ok THEN "panic" ELSE r.ret
    /\ UNCHANGED <<build, names, sections, stack, warnings, requested, spent,
                 parsed>>

\* The first call made on a new store.
TryNew ==
    /\ op = "new"
    /\ \E kind \in Kinds :
        \E address \in AddrInputs(kind), bank \in BankInputs(kind),
           alignment \in AlignInputs, offset \in OffsetInputs :
            Normalize(kind, address, bank, alignment, offset)

\* add_section with the attributes the try_new call returned.
AddSectionNormalized ==
    /\ op = "try_new"
    /\ ret = "Ok"
    /\ \E modifier \in Modifiers :
        LET n == Unwrap(normalized)
            r == add_section(Store, 0, n.kind, modifier, n.attrs)
        IN  /\ names' = r.names
            /\ sections' = r.sections
            /\ stack' = r.stack
            /\ op' = "add_section"
            /\ ret' = r.ret
            /\ requested' = requested @@ (0 :> 0)
            /\ UNCHANGED <<build, warnings, spent, normalized, parsed>>

NextNormalize == TryNew \/ AddSectionNormalized

SpecNormalize == Init /\ [][NextNormalize]_vars

(***************************************************************************)
(* SpecDeclare: declarations only, of one name, with every kind, every     *)
(* modifier and the attributes of RawAttrs.                                *)
(***************************************************************************)
Redeclare ==
    \E kind \in Kinds, modifier \in Modifiers :
        \E raw \in RawAttrs(kind) : Declare(0, kind, modifier, raw)

NextDeclare == Redeclare

SpecDeclare == Init /\ [][NextDeclare]_vars

(***************************************************************************)
(* SpecArgs: one argument of the fixer's command line is parsed, a fix     *)
(* specification or an MBC name.                                           *)
(***************************************************************************)
\* The characters of the fix specifications tried: the six of FixSpec and
\* one it does not know.
FixChars == {"l", "L", "h", "H", "g", "G", "x"}

RECURSIVE Strings(_, _)
Strings(alphabet, n) ==
    IF n = 0 THEN {<<>>}
    ELSE LET shorter == Strings(alphabet, n - 1) IN
         shorter \cup {Append(s, c) : s \in shorter, c \in alphabet}

FixSpecs == Strings(FixChars, MaxFixLen)

\* Other arguments: the help, other cases and separators, unknown names and
\* extensions, extensions the type cannot have.
OtherNames == {
    <<"h", "e", "l", "p">>,
    <<"H", "E", "L", "P">>,
    <<"m", "b", "c", "1", "+", "r", "a", "m">>,
    <<"M", "b", "c", "3", " ", "+", " ", "T", "i", "m", "e", "r", " ", "+",
      " ", "B", "a", "t", "t", "e", "r", "y">>,
    <<"M", "B", "C", "2", "+", "R", "A", "M">>,
    <<"M", "B", "C", "1", "+", "F", "O", "O">>,
    <<"M", "B", "C", "7">>,
    <<"M", "B", "C", "4">>,
    <<"T", "P", "P", "1">>,
    <<"T", "P", "P", "1", "+", "T", "I", "M", "E", "R">>,
    <<"T", "P", "P", "1", "+", "B", "A", "T", "T", "E", "R", "Y", "+", "R",
      "U", "M", "B", "L", "E">>,
    <<>>,
    <<"R", "O", "M", "_", "O", "N", "L", "Y", "+", "R", "A", "M">>,
    <<"M", "B", "C", "5", "_", "R", "A", "M", "_", "B", "A", "T", "T", "E",
      "R", "Y">>,
    <<"H", "U", "C", "1", "+", "\t", "R", "A", "M">>,
    <<"M", "B", "C", "6", "+", "R", "A", "M">>,
    <<"M", "B", "C", "1", "+", "+", "R", "A", "M">>,
    <<"R", "O", "M", "X">>
}

MbcNames == HelpNames \cup OtherNames

ParseFixSpec ==
    /\ op = "new"
    /\ \E s \in FixSpecs :
        LET r == FixSpec_from_str(s) IN
        /\ parsed' = Some([parser |-> "FixSpec", input |-> s, result |-> r])
        /\ op' = "FixSpec::from_str"
        /\ ret' = r.ret
    /\ UNCHANGED <<build, names, sections, stack, warnings, requested, spent,
                   normalized>>

ParseMbc ==
    /\ op = "new"
    /\ \E s \in MbcNames :
        LET r == MBC_from_str(s) IN
        /\ parsed' = Some([parser |-> "MBC", input |-> s, result |-> r])
        /\ op' = "MBC::from_str"
        /\ ret' = r.ret
    /\ UNCHANGED <<build, names, sections, stack, warnings, requested, spent,
                   normalized>>

NextArgs == ParseFixSpec \/ ParseMbc

SpecArgs == Init /\ [][NextArgs]_vars

(***************************************************************************)
(* Properties                                                              *)
(***************************************************************************)
\* The top slot's cursor of a store, None while the slot is empty.
Top(S) == S.stack[Len(S.stack)]

\* C1: add_section on a name stored with modifier Normal fails with
\* SectAlreadyDefined, whatever the kind, the modifier and the attributes of
\* the new declaration, those of the stored declaration included.
C1_NormalAlreadyDefined ==
    \A name \in DOMAIN sections :
        sections[name].modifier = "Normal" =>
            \A kind \in Kinds, modifier \in Modifiers :
                \A attrs \in Normalized(kind) :
                    add_section(Store, name, kind, modifier, attrs).ret
                        = "SectAlreadyDefined"

\* A Normal section was declared again and the call has returned.
C1_Witness ==
    /\ op = "add_section"
    /\ ret = "SectAlreadyDefined"
    /\ \E name \in DOMAIN sections :
        /\ sections[name].modifier = "Normal"
        /\ sections[name].attrs \in Normalized(sections[name].kind)

\* C2: a name stored with modifier Union, declared again with modifier Union
\* and the same kind, fails with RomUnion when that kind holds data.
C2_DataInUnion ==
    \A name \in DOMAIN sections :
        LET other == sections[name] IN
        (other.modifier = "Union" /\ has_data(other.kind)) =>
            \A attrs \in Normalized(other.kind) :
                add_section(Store, name, other.kind, "Union", attrs).ret = "RomUnion"

\* A Union section of a data-holding kind was declared again.
C2_Witness ==
    /\ op = "add_section"
    /\ ret = "RomUnion"
    /\ \E name \in DOMAIN sections :
        sections[name].modifier = "Union" /\ has_data(sections[name].kind)

\* Two bank constraints conflict when both are given and differ.
BankConflict(a, b) == IsSome(a.bank) /\ IsSome(b.bank) /\ a.bank # b.bank

\* C3: a name stored with modifier Union, declared again with modifier Union,
\* the same kind, which holds no data, and bank constraints that do not
\* conflict: the call returns Ok and the top slot's cursor points at the
\* section with offset 0.
C3_UnionRedeclared ==
    \A name \in DOMAIN sections :
        LET other == sections[name] IN
        (other.modifier = "Union" /\ ~has_data(other.kind)) =>
            \A attrs \in Normalized(other.kind) :
                ~BankConflict(other.attrs, attrs) =>
                    LET r == add_section(Store, name, other.kind, "Union", attrs) IN
                    /\ r.ret = "Ok"
                    /\ IsSome(Top(r))
                    /\ Unwrap(Top(r)).name = name
                    /\ Unwrap(Top(r)).offset = 0

\* C4: a name stored with modifier Fragment, declared again with modifier
\* Fragment, the same kind and bank constraints that do not conflict: the
\* call returns Ok and the new cursor's offset is the section's accumulated
\* length (its data length or its virtual length).
C4_FragmentRedeclared ==
    \A name \in DOMAIN sections :
        LET other == sections[name] IN
        other.modifier = "Fragment" =>
            \A attrs \in Normalized(other.kind) :
                ~BankConflict(other.attrs, attrs) =>
                    LET r == add_section(Store, name, other.kind, "Fragment", attrs) IN
                    /\ r.ret = "Ok"
                    /\ IsSome(Top(r))
                    /\ Unwrap(Top(r)).name = name
                    /\ Unwrap(Top(r)).offset \in {Len(other.data), other.len_virt}

\* C5: extend on an active section whose kind holds no data returns
\* NotCodeSection and changes nothing: the section (data, len_virt, patches)
\* and the cursor (offset, pc_offset) are as before and warn is not called.
C5_NotCodeSection ==
    active_section(Store) # None =>
        LET h == Unwrap(active_section(Store)) IN
        ~has_data(h.sect.kind) =>
            \A slice \in Batches \cup {FillBatch} :
                extend(build, h.active, h.sect, slice)
                    = [ret |-> "NotCodeSection", active |-> h.active,
                       sect |-> h.sect, warnings |-> <<>>]

\* extend was called on a section without data and has returned the error.
C5_Witness ==
    /\ op = "extend"
    /\ ret = "NotCodeSection"
    /\ active_section(Store) # None
    /\ ~has_data(Unwrap(active_section(Store)).sect.kind)

\* What extend gives for a batch on the active handle.
Extended(slice) ==
    LET h == Unwrap(active_section(Store)) IN extend(build, h.active, h.sect, slice)

\* The batch was written: the section holds data, the fold of the widths
\* went through and the new len_virt is within the kind's size.
Written(slice, r) ==
    /\ has_data(r.sect.kind)
    /\ ~(build = "debug" /\ total_len(slice).overflow)
    /\ r.sect.len_virt <= size(r.sect.kind)

\* Item i of the batch is a value that does not fold to a constant.
Unresolved(slice, i) ==
    slice[i].tag = "Expr" /\ try_get_constant(slice[i].rpn) = None

\* Item i of the batch is a value that folds to a constant.
Constant(slice, i) ==
    slice[i].tag = "Expr" /\ try_get_constant(slice[i].rpn) # None

\* The total width of the items before item i.
Before(slice, i) == sum_len(slice, 1, i - 1)

\* C6: in a batch that is written, each item that does not fold to a
\* constant appends exactly one relocation, whose offset is the cursor's
\* offset before the item, and as many zero bytes as its width; the cursor's
\* offset and pc_offset advance by the width of every item.
C6_RelocationPerUnresolved ==
    active_section(Store) # None =>
        \A slice \in Batches :
            LET h == Unwrap(active_section(Store))
                r == Extended(slice)
                unresolved == { i \in 1..Len(slice) : Unresolved(slice, i) }
                rank(i) == Cardinality({ j \in unresolved : j <= i })
                old == Len(h.sect.patches)
            IN  Written(slice, r) =>
                    /\ Len(r.sect.patches) = old + Cardinality(unresolved)
                    /\ SubSeq(r.sect.patches, 1, old) = h.sect.patches
                    /\ \A i \in unresolved :
                        LET reloc == r.sect.patches[old + rank(i)] IN
                        /\ reloc.offset = h.active.offset + Before(slice, i)
                        /\ reloc.rpn = slice[i].rpn
                        /\ reloc.kind = slice[i].kind
                        /\ \A k \in 1..width(slice[i].kind) :
                            r.sect.data[Len(h.sect.data) + Before(slice, i) + k] = 0
                    /\ r.active.offset = h.active.offset + batch_len(slice)
                    /\ r.active.pc_offset = h.active.pc_offset + batch_len(slice)

\* A written batch has left a relocation behind bytes written before it.
C6_Witness ==
    /\ op = "extend"
    /\ ret = "Ok"
    /\ \E name \in DOMAIN sections :
        \E i \in 1..Len(sections[name].patches) :
            sections[name].patches[i].offset > 0

\* C7: after any sequence of extend calls on a data-holding section,
\* len_virt is the sum of the item widths of all the batches passed so far.
C7_LenVirtIsSum ==
    \A name \in DOMAIN sections :
        has_data(sections[name].kind) =>
            sections[name].len_virt = requested[name]

\* C8: an extend call whose batch takes len_virt over the kind's size
\* returns Ok and writes nothing: data, patches and the cursor are as
\* before, no warning is passed, and len_virt has grown by the batch's
\* total width.
C8_OverflowSkipsBatch ==
    active_section(Store) # None =>
        LET h == Unwrap(active_section(Store)) IN
        has_data(h.sect.kind) =>
            \A slice \in FewBatches \cup {FillBatch} :
                h.sect.len_virt + batch_len(slice) > size(h.sect.kind) =>
                    Extended(slice)
                        = [ret |-> "Ok", active |-> h.active,
                           sect |-> [h.sect EXCEPT !.len_virt = @ + batch_len(slice)],
                           warnings |-> <<>>]

\* Byte k (from 1, low byte first) of the two's complement of c.
LowByte(c, k) == (c \div Pow2(8 * (k - 1))) % 256

C10_PcSaturates ==
    \A name \in DOMAIN sections :
        LET sect == sections[name] IN
        try_get_pc(sect) =
            IF sect.attrs.address = None THEN None
            ELSE LET pc == Unwrap(sect.attrs.address) + Len(sect.data) IN
                 Some(IF pc <= U16_MAX THEN pc ELSE U16_MAX)

\* The try_new call recorded, and whether each expression was given a value
\* that its lowering accepts (or was not given).
Call == Unwrap(normalized)
FirstAddr(kind) == start_addr(kind)
LastAddr(kind) == start_addr(kind) + size(kind) - 1
Bankable == {"Romx", "Vram", "Sram", "Wramx"}
InBanks(kind, v) == banks(kind).start <= v /\ v <= banks(kind).end
AddressPasses(n) ==
    n.address = None
    \/ (FirstAddr(n.kind) <= Unwrap(n.address) /\ Unwrap(n.address) <= LastAddr(n.kind))
BankPasses(n) ==
    n.bank = None \/ (n.kind \in Bankable /\ InBanks(n.kind, Unwrap(n.bank)))

\* C11: try_new given an address expression of value v fails with
\* AddrOutOfRange when v is not in 0..=65535, with AddrOutOfBounds when v is
\* a 16-bit value outside [start, start + size - 1] of the kind, and when it
\* succeeds the address it returns is v, inside that interval.
C11_AddressChecked ==
    (normalized # None /\ IsSome(Call.address)) =>
        LET v == Unwrap(Call.address) IN
        /\ (v < 0 \/ v > U16_MAX) => Call.ret = "AddrOutOfRange"
        /\ (0 <= v /\ v <= U16_MAX
            /\ (v < FirstAddr(Call.kind) \/ v > LastAddr(Call.kind)))
                => Call.ret = "AddrOutOfBounds"
        /\ Call.ret = "Ok" =>
            /\ Call.attrs.address = Some(v)
            /\ FirstAddr(Call.kind) <= v /\ v <= LastAddr(Call.kind)

\* try_new has refused a 16-bit address just past the kind's last address,
\* and in another call accepted the last address itself.
C11_Witness ==
    /\ op = "try_new"
    /\ normalized # None
    /\ IsSome(Call.address)
    /\ \/ /\ ret = "AddrOutOfBounds"
          /\ Unwrap(Call.address) = LastAddr(Call.kind) + 1
          /\ Unwrap(Call.address) <= U16_MAX

\* C12: try_new given a bank expression fails with Unbanked when the kind
\* is not one of Romx, Vram, Sram, Wramx, whatever the bank value, and
\* otherwise with BankOutOfRange when the value, negative values included,
\* is outside the kind's bank range; an explicit bank is accepted only if it
\* lies in that range.  The bank is looked at once the address expression,
\* if there is one, has passed its own check; an address that fails it gives
\* the address error.
C12_BankChecked ==
    (normalized # None /\ IsSome(Call.bank)) =>
        LET v == Unwrap(Call.bank) IN
        /\ AddressPasses(Call) =>
            /\ Call.kind \notin Bankable => Call.ret = "Unbanked"
            /\ (Call.kind \in Bankable /\ ~InBanks(Call.kind, v))
                    => Call.ret = "BankOutOfRange"
        /\ ~AddressPasses(Call) => Call.ret \in {"AddrOutOfRange", "AddrOutOfBounds"}
        /\ Call.ret = "Ok" => (Call.kind \in Bankable /\ InBanks(Call.kind, v))

\* try_new has refused a negative bank of a banked kind, its address passing.
C12_Witness ==
    /\ op = "try_new"
    /\ normalized # None
    /\ IsSome(Call.bank)
    /\ Unwrap(Call.bank) < 0
    /\ Call.kind \in Bankable
    /\ IsSome(Call.address)
    /\ ret = "BankOutOfRange"

\* The alignment and the offset a call asks for: 0 when not given.
AlignOf(n) == IF IsSome(n.alignment) THEN Unwrap(n.alignment) ELSE 0
OffsetOf(n) == IF IsSome(n.offset) THEN Unwrap(n.offset) ELSE 0

\* The call gives an address that passes its check and an alignment in
\* 1..=16, its bank expression being absent or passing its check too.
AlignedAddress(n) ==
    /\ IsSome(n.address)
    /\ AddressPasses(n)
    /\ BankPasses(n)
    /\ 1 <= AlignOf(n) /\ AlignOf(n) <= 16

\* C13 as stated: try_new given a valid explicit address, an alignment a in
\* 1..=16 and an alignment offset o succeeds only if address & ((1<<a)-1) = o
\* and otherwise fails with AlignMismatch.
C13_AlignMismatch_AsStated ==
    (normalized # None /\ AlignedAddress(Call)) =>
        LET low == Unwrap(Call.address) % Pow2(AlignOf(Call)) IN
        /\ Call.ret = "Ok" => low = OffsetOf(Call)
        /\ low # OffsetOf(Call) => Call.ret = "AlignMismatch"

\* C13, amended: with o in 0..2^a-1 the call succeeds if
\* address & ((1<<a)-1) = o and fails with AlignMismatch if not; an offset
\* outside 0..2^a-1 fails with AlignOfsOutOfRange, before the address is
\* compared.
C13_AlignMismatch ==
    (normalized # None /\ AlignedAddress(Call)) =>
        LET a == AlignOf(Call)
            o == OffsetOf(Call)
            low == Unwrap(Call.address) % Pow2(a)
        IN  IF o < 0 \/ o >= Pow2(a)
            THEN Call.ret = "AlignOfsOutOfRange"
            ELSE IF low = o
            THEN Call.ret = "Ok"
            ELSE Call.ret = "AlignMismatch"

\* try_new has refused an address whose low bits are not the offset asked
\* for, the offset being in range.
C13_Witness ==
    /\ op = "try_new"
    /\ normalized # None
    /\ AlignedAddress(Call)
    /\ IsSome(Call.offset)
    /\ ret = "AlignMismatch"

\* An address that is set comes with alignment 0.
AlignmentCollapsed(attrs) == IsSome(attrs.address) => attrs.alignment = 0

\* C14: the attrs returned by a successful try_new, the attrs stored in
\* every section, and the attrs a section is left with by any further
\* add_section call on its name, have alignment 0 whenever address is set.
C14_AddressClearsAlignment ==
    /\ (normalized # None /\ Call.ret = "Ok") => AlignmentCollapsed(Call.attrs)
    /\ \A name \in DOMAIN sections :
        /\ AlignmentCollapsed(sections[name].attrs)
        /\ \A modifier \in Modifiers :
            \A attrs \in Normalized(sections[name].kind) :
                AlignmentCollapsed(
                    add_section(Store, name, sections[name].kind, modifier, attrs)
                        .sections[name].attrs)

\* A section was stored with the address of a call that asked for an
\* alignment as well.
C14_Witness ==
    /\ op = "add_section"
    /\ ret = "Ok"
    /\ normalized # None
    /\ AlignOf(Call) >= 1
    /\ \E name \in DOMAIN sections : IsSome(sections[name].attrs.address)

\* C15: when try_new succeeds with a requested alignment a in 1..=16 and
\* returns a set address, address mod 2^a is the returned align_offset and
\* the address lies in the kind's address range; the call may have given no
\* address and an alignment of 16.
C15_ReturnedAddressAligned ==
    (/\ normalized # None
     /\ Call.ret = "Ok"
     /\ 1 <= AlignOf(Call) /\ AlignOf(Call) <= 16
     /\ IsSome(Call.attrs.address)) =>
        LET addr == Unwrap(Call.attrs.address) IN
        /\ addr % Pow2(AlignOf(Call)) = Call.attrs.align_offset
        /\ FirstAddr(Call.kind) <= addr /\ addr <= LastAddr(Call.kind)

\* The kind's legal bank range is a single value.
SingleBank(kind) == banks(kind).start = banks(kind).end

\* C16: for a kind whose bank range is a single value b, a successful
\* try_new returns bank = Some(b) whether or not a bank expression was
\* given, and the assertion that an explicit bank equals b does not fail in
\* any call.
C16_SingleBankForced ==
    (normalized # None /\ SingleBank(Call.kind)) =>
        /\ Call.ret = "Ok" => Call.attrs.bank = Some(banks(Call.kind).start)
        /\ Call.assert_ok
        /\ ret # "panic"

\* try_new has succeeded on a single-bank kind without a bank expression.
C16_Witness ==
    /\ op = "try_new"
    /\ ret = "Ok"
    /\ normalized # None
    /\ SingleBank(Call.kind)
    /\ Call.bank = None
    /\ IsSome(Call.attrs.bank)

\* C17: merge of the stored attrs with new attrs.  Both banks set and
\* different: DifferentBank, the stored bank unchanged.  Both set and equal:
\* Ok, unchanged.  Exactly one set: Ok, the stored bank becomes that value.
\* Neither set: Ok, the bank stays unset.  Nothing but the bank changes, and
\* through a second successful merge a bank that was set keeps its value.
C17_MergeBank ==
    \A name \in DOMAIN sections :
        LET self == sections[name].attrs IN
        \A other \in Normalized(sections[name].kind) :
            LET m == merge(self, other) IN
            /\ m.attrs = [self EXCEPT !.bank = m.attrs.bank]
            /\ (IsSome(self.bank) /\ IsSome(other.bank) /\ self.bank # other.bank)
                => (m.ret = "DifferentBank" /\ m.attrs.bank = self.bank)
            /\ (IsSome(self.bank) /\ IsSome(other.bank) /\ self.bank = other.bank)
                => (m.ret = "Ok" /\ m.attrs.bank = self.bank)
            /\ (IsSome(self.bank) /\ other.bank = None)
                => (m.ret = "Ok" /\ m.attrs.bank = self.bank)
            /\ (self.bank = None /\ IsSome(other.bank))
                => (m.ret = "Ok" /\ m.attrs.bank = other.bank)
            /\ (self.bank = None /\ other.bank = None)
                => (m.ret = "Ok" /\ m.attrs.bank = None)
            /\ \A next \in Normalized(sections[name].kind) :
                LET n == merge(m.attrs, next) IN
                (m.ret = "Ok" /\ n.ret = "Ok" /\ IsSome(m.attrs.bank))
                    => n.attrs.bank = m.attrs.bank

\* A redeclaration has been refused by merge for its bank, the stored
\* section keeping its own.
C17_Witness ==
    /\ op = "add_section"
    /\ ret = "DifferentBank"
    /\ \E name \in DOMAIN sections : IsSome(sections[name].attrs.bank)

\* C18: add_section on an existing name.  Stored modifier Normal:
\* SectAlreadyDefined.  Else a new modifier other than the stored one:
\* DifferentSectMod, also when the kinds differ.  Else another kind:
\* DifferentSectKind, also when the stored modifier is Union and the new
\* kind holds data.  Only with the same modifier and kind does the call get
\* to the Union and Fragment rules, where it returns none of these three.
C18_CheckOrder ==
    \A name \in DOMAIN sections :
        LET other == sections[name] IN
        \A kind \in Kinds, modifier \in Modifiers :
            \A attrs \in Normalized(kind) :
                LET r == add_section(Store, name, kind, modifier, attrs).ret IN
                IF other.modifier = "Normal" THEN r = "SectAlreadyDefined"
                ELSE IF modifier # other.modifier THEN r = "DifferentSectMod"
                ELSE IF kind # other.kind THEN r = "DifferentSectKind"
                ELSE /\ r \notin {"SectAlreadyDefined", "DifferentSectMod",
                                  "DifferentSectKind"}
                     /\ (modifier = "Union" /\ has_data(kind)) => r = "RomUnion"
                     /\ r = "RomUnion" => (modifier = "Union" /\ has_data(kind))

\* A Union section has been declared again as a Union of another kind.
C18_Witness ==
    /\ op = "add_section"
    /\ ret = "DifferentSectKind"
    /\ \E name \in DOMAIN sections : sections[name].modifier = "Union"

\* C19: add_section on a name not yet in the store succeeds for every kind,
\* modifier and attrs: the section is stored with these, with empty data, no
\* relocation and len_virt 0, the sections already stored are as before,
\* and the top slot's cursor is on the new section with offset 0 and
\* pc_offset 0.
C19_NewSection ==
    \A name \in NextNames(Names) \ DOMAIN sections :
        \A kind \in Kinds, modifier \in Modifiers :
            \A attrs \in Normalized(kind) :
                LET r == add_section(Store, name, kind, modifier, attrs) IN
                /\ r.ret = "Ok"
                /\ DOMAIN r.sections = DOMAIN sections \cup {name}
                /\ \A n \in DOMAIN sections : r.sections[n] = sections[n]
                /\ r.sections[name] =
                    [kind |-> kind, modifier |-> modifier, attrs |-> attrs,
                     patches |-> <<>>, data |-> <<>>, len_virt |-> 0]
                /\ Len(r.stack) = Len(stack)
                /\ IsSome(Top(r))
                /\ Unwrap(Top(r)).name = name
                /\ Unwrap(Top(r)).offset = 0
                /\ Unwrap(Top(r)).pc_offset = 0

\* A second name has been declared after bytes were written to the first:
\* the new section is empty and the cursor is at its start.
C19_Witness ==
    /\ op = "add_section"
    /\ ret = "Ok"
    /\ Cardinality(DOMAIN sections) = 2
    /\ \E n \in DOMAIN sections : Len(sections[n].data) > 0
    /\ IsSome(Top(Store))
    /\ Unwrap(Top(Store)).offset = 0
    /\ sections[Unwrap(Top(Store)).name].data = <<>>
    /\ sections[Unwrap(Top(Store)).name].len_virt = 0

\* C20: the stack is never empty.  active_section gives nothing exactly
\* while the top slot is empty, which is so exactly while no section has
\* been stored; otherwise it gives the top slot's cursor with the section the
\* cursor names.  An add_section call that returns Ok leaves the handle on
\* the section it named; a call that fails, and an extend call, leave the
\* handle on the section it was on.
C20_ActiveSection ==
    /\ Len(stack) >= 1
    /\ active_section(Store) = None <=> Top(Store) = None
    /\ Top(Store) = None <=> DOMAIN sections = {}
    /\ IsSome(Top(Store)) =>
        /\ Unwrap(Top(Store)).name \in DOMAIN sections
        /\ active_section(Store)
            = Some([active |-> Unwrap(Top(Store)),
                    sect |-> sections[Unwrap(Top(Store)).name]])
        /\ \A slice \in SmallBatches :
            Extended(slice).active.name = Unwrap(Top(Store)).name
    /\ \A name \in NextNames(Names), kind \in SomeKinds, modifier \in Modifiers :
        \A attrs \in Normalized(kind) :
            LET r == add_section(Store, name, kind, modifier, attrs)
                S == [names |-> r.names, sections |-> r.sections, stack |-> r.stack]
            IN  /\ Len(r.stack) >= 1
                /\ r.ret = "Ok" =>
                    /\ IsSome(active_section(S))
                    /\ Unwrap(active_section(S)).active.name = name
                    /\ Unwrap(active_section(S)).sect = r.sections[name]
                /\ r.ret # "Ok" => r.stack = stack

\* With two sections stored, the handle is on the second one, declared
\* last, and bytes have been written through it.
C20_Witness ==
    /\ Cardinality(DOMAIN sections) = 2
    /\ op = "extend"
    /\ ret = "Ok"
    /\ IsSome(active_section(Store))
    /\ Unwrap(active_section(Store)).active.name = 1
    /\ Len(Unwrap(active_section(Store)).sect.data) > 0

\* Every cursor on the stack names a stored section.
CursorsStored ==
    \A i \in 1..Len(stack) :
        IsSome(stack[i]) => Unwrap(stack[i]).name \in DOMAIN sections

\* A step keeps every stored name, with its kind and its modifier.
SectionsKept ==
    \A name \in DOMAIN sections :
        /\ name \in DOMAIN sections'
        /\ sections'[name].kind = sections[name].kind
        /\ sections'[name].modifier = sections[name].modifier

\* C21: a name once stored stays stored in every later state with the same
\* kind and modifier, and the name held by any cursor on the stack is that
\* of a stored section, so that the lookup of active_section finds it.
C21_SectionsPersist == [][SectionsKept]_vars /\ []CursorsStored

\* A stored section has been declared again with another kind, and the
\* cursor is on a stored section.
C21_Witness ==
    /\ op = "add_section"
    /\ ret = "DifferentSectKind"
    /\ IsSome(Top(Store))
    /\ Unwrap(Top(Store)).name \in DOMAIN sections

\* The step is an extend call made through the cursor on the top slot, which
\* stays on its section.
ExtendStep ==
    /\ op' = "extend"
    /\ IsSome(Top(Store))
    /\ IsSome(stack'[Len(stack')])
    /\ Unwrap(stack'[Len(stack')]).name = Unwrap(Top(Store)).name

\* The cursor on the top slot stays on its section and its offset or its
\* pc_offset gets lower.
Rewound ==
    /\ IsSome(Top(Store))
    /\ IsSome(stack'[Len(stack')])
    /\ Unwrap(stack'[Len(stack')]).name = Unwrap(Top(Store)).name
    /\ \/ Unwrap(stack'[Len(stack')]).offset < Unwrap(Top(Store)).offset
       \/ Unwrap(stack'[Len(stack')]).pc_offset < Unwrap(Top(Store)).pc_offset

\* What an extend step adds to the cursor's offset, and the total width of
\* the batch it was given when it returned Ok.
OffsetGain == Unwrap(stack'[Len(stack')]).offset - Unwrap(Top(Store)).offset
BatchWidth ==
    requested'[Unwrap(Top(Store)).name] - requested[Unwrap(Top(Store)).name]

\* C22 as stated: over extend calls on the same cursor, offset and pc_offset
\* never decrease and each call that returns Ok advances the offset by the
\* total width of its batch; only the redeclaration of a Union section gives
\* a section's cursor a lower offset.
C22_CursorAdvances_AsStated ==
    [][/\ Rewound =>
            (op' = "add_section"
             /\ sections[Unwrap(Top(Store)).name].modifier = "Union")
       /\ (ExtendStep /\ ret' = "Ok") => OffsetGain = BatchWidth]_vars

\* C22, amended: an extend call that returns Ok advances the offset by the
\* total width of its batch when it writes the batch, and leaves the offset
\* as it is when it skips the batch because len_virt has passed the kind's
\* size.
C22_CursorAdvances ==
    [][/\ Rewound =>
            (op' = "add_section"
             /\ sections[Unwrap(Top(Store)).name].modifier = "Union")
       /\ (ExtendStep /\ ret' = "Ok") =>
            LET name == Unwrap(Top(Store)).name IN
            IF sections'[name].len_virt <= size(sections'[name].kind)
            THEN OffsetGain = BatchWidth
            ELSE OffsetGain = 0 /\ BatchWidth > 0]_vars

\* After the fill batches a further batch has been written through the same
\* cursor, which is past the fill.
C22_Witness ==
    /\ op = "extend"
    /\ ret = "Ok"
    /\ spent = 1
    /\ IsSome(Top(Store))
    /\ Unwrap(Top(Store)).offset > FillLen
    /\ Unwrap(Top(Store)).offset = Len(sections[Unwrap(Top(Store)).name].data)

\* C23: in every state a section's data is no longer than the kind's
\* maximum size, and while len_virt is at most that size the data length is
\* len_virt, whatever the number of items of the batches.
C23_DataWithinSize ==
    \A name \in DOMAIN sections :
        LET sect == sections[name] IN
        /\ Len(sect.data) <= size(sect.kind)
        /\ sect.len_virt <= size(sect.kind) => Len(sect.data) = sect.len_virt

\* C24: try_new accepts an alignment offset o only if 0 <= o < 2^a, a being
\* the alignment asked for, 0 when none is; otherwise it fails with
\* AlignOfsOutOfRange.  An alignment outside 0..=16 fails with
\* AlignOutOfRange whatever the offset.  Both are looked at once the address
\* and the bank expressions, if given, have passed their checks.
C24_OffsetChecked ==
    (normalized # None /\ AddressPasses(Call) /\ BankPasses(Call)) =>
        LET a == AlignOf(Call)
            o == OffsetOf(Call)
        IN  /\ (a < 0 \/ a > 16) => Call.ret = "AlignOutOfRange"
            /\ (0 <= a /\ a <= 16 /\ IsSome(Call.offset)
                /\ (o < 0 \/ o >= Pow2(a)))
                    => Call.ret = "AlignOfsOutOfRange"
            /\ (Call.ret = "Ok" /\ IsSome(Call.offset)) =>
                    (0 <= a /\ a <= 16 /\ 0 <= o /\ o < Pow2(a))
            /\ (Call.ret = "Ok" /\ IsSome(Call.offset) /\ Call.alignment = None)
                    => o = 0

\* try_new has refused the offset 1 given without an alignment.
C24_Witness ==
    /\ op = "try_new"
    /\ ret = "AlignOfsOutOfRange"
    /\ normalized # None
    /\ Call.alignment = None
    /\ Call.offset = Some(1)

\* C26: an add_section call that returns an error leaves the interner, the
\* stack and every stored section (kind, modifier, attrs, data, len_virt and
\* relocations) as they were before the call.
C26_ErrorChangesNothing ==
    [][(op' = "add_section" /\ ret' \notin {"Ok", "panic"})
        => UNCHANGED <<names, sections, stack>>]_vars

\* A section that holds bytes and a bank has been declared again with
\* another bank, and the call has returned the error.
C26_Witness ==
    /\ op = "add_section"
    /\ ret = "DifferentBank"
    /\ \E name \in DOMAIN sections :
        /\ Len(sections[name].data) > 0
        /\ IsSome(sections[name].attrs.bank)

\* C27: the cursor on the top slot is at the end of its section's data; the
\* range of every stored relocation lies inside the data and holds zero
\* bytes only; the relocations of a section are in increasing offset order
\* and their ranges do not overlap.
C27_CursorAndPatches ==
    /\ IsSome(Top(Store)) =>
        Unwrap(Top(Store)).offset = Len(sections[Unwrap(Top(Store)).name].data)
    /\ \A name \in DOMAIN sections :
        LET sect == sections[name] IN
        \A i \in 1..Len(sect.patches) :
            LET reloc == sect.patches[i] IN
            /\ reloc.offset >= 0
            /\ reloc.offset + width(reloc.kind) <= Len(sect.data)
            /\ \A k \in 1..width(reloc.kind) : sect.data[reloc.offset + k] = 0
            /\ i > 1 =>
                sect.patches[i - 1].offset + width(sect.patches[i - 1].kind)
                    <= reloc.offset

\* A batch has left two relocations in a section, the second one past the
\* first, and the cursor is past both.
C27_Witness ==
    /\ op = "extend"
    /\ ret = "Ok"
    /\ IsSome(Top(Store))
    /\ Unwrap(Top(Store)).offset > 0
    /\ Len(sections[Unwrap(Top(Store)).name].patches) >= 2

\* The last argument parsed, by the named parser.
Parsed(parser) == IsSome(parsed) /\ Unwrap(parsed).parser = parser

\* C25: every name that print_help lists under "Accepted MBC types" is parsed
\* by MBC::from_str to Ok, with the type and the extensions the list names.
C25_HelpNamesParse ==
    Parsed("MBC") =>
        \A i \in DOMAIN print_help :
            print_help[i].name = Unwrap(parsed).input =>
                /\ Unwrap(parsed).result.ret = "Ok"
                /\ Unwrap(parsed).result.ty = Some(print_help[i].ty)
                /\ Unwrap(parsed).result.extensions = print_help[i].extensions

\* The items of a fix specification: the character and the flag that fix
\* it, the character and the flag that trash it.
FixItems ==
    {[good |-> "l", fix |-> "FIX_LOGO", bad |-> "L", trash |-> "TRASH_LOGO"],
     [good |-> "h", fix |-> "FIX_HEADER_SUM",
      bad |-> "H", trash |-> "TRASH_HEADER_SUM"],
     [good |-> "g", fix |-> "FIX_GLOBAL_SUM",
      bad |-> "G", trash |-> "TRASH_GLOBAL_SUM"]}

\* The position of the last character of s that is in cs, 0 when there is
\* none.
LastOf(s, cs) ==
    LET at == {i \in 1..Len(s) : s[i] \in cs} IN
    IF at = {} THEN 0 ELSE CHOOSE i \in at : \A j \in at : j <= i

KnownFixChar(c) == \E item \in FixItems : c \in {item.good, item.bad}

\* C28: FixSpec::from_str returns Ok for every string; the flag set never
\* holds both the fix and the trash flag of one item; for each item the flag
\* present is the one of the last l/L, h/H or g/G of the string, none when
\* the string has no such character; and the characters it does not know
\* change nothing: the string without them gives the same flags.
C28_FixSpecLastWins ==
    Parsed("FixSpec") =>
        LET s == Unwrap(parsed).input
            r == Unwrap(parsed).result IN
        /\ r.ret = "Ok"
        /\ r.flags \subseteq FixSpec_all
        /\ \A item \in FixItems :
            LET last == LastOf(s, {item.good, item.bad}) IN
            /\ ~({item.fix, item.trash} \subseteq r.flags)
            /\ item.fix \in r.flags <=> (last > 0 /\ s[last] = item.good)
            /\ item.trash \in r.flags <=> (last > 0 /\ s[last] = item.bad)
        /\ r.flags = FixSpec_from_str(SelectSeq(s, KnownFixChar)).flags

\* A string that fixes the logo, holds an unknown character, then trashes
\* the logo, has been parsed: only the trash flag is left.
C28_Witness ==
    /\ Parsed("FixSpec")
    /\ Unwrap(parsed).input = <<"l", "x", "L">>
    /\ Unwrap(parsed).result.ret = "Ok"
    /\ Unwrap(parsed).result.flags = {"TRASH_LOGO"}

====
